---- MODULE Spec2Model ----
(***************************************************************************)
(* Model of the snapshot reporter scripts of upheaval-defi/khype:          *)
(*   src/fetch-thbill-positions.js   the pool-id variant                   *)
(*   src/unnamed/part_000            the two token-id variants (the second *)
(*                                   one with the FILTER_USERS allow-list) *)
(*                                                                         *)
(* JavaScript strings are sequences of one-character strings, so that      *)
(* toLowerCase, parseFloat, toFixed and Number.toString are computed       *)
(* character by character.  JavaScript numbers are decimal records         *)
(* [nan, neg, mant, exp] standing for (-1)^neg * mant / 10^exp.            *)
(***************************************************************************)
EXTENDS Integers, Sequences, FiniteSets, TLC

\* ------------------------------------------------------------------ bounds
\* Longest amount string fed to formatTokenAmount on its own.
MaxAmountLen == 4
\* Longest snapshot sequence a display function is given.
MaxSnapshots == 3
\* The longest snapshot sequence of one position group.
MaxEvents == 6

VARIABLES
  pc,            \* where the call or the main of the specification stands:
                 \* "ready" or "start", for main then "awaiting", at last "done"
  amountArg,     \* formatTokenAmount: its argument
  formatted,     \* formatTokenAmount: its result, Absent before the call
  script,        \* which script's displayPositionSnapshots is called
  FILTER_USERS,  \* the allow-list the script was edited to hold
  snapshots,     \* the argument of displayPositionSnapshots
  printed,       \* what the display functions printed, Absent before the call
  requests,      \* the queries posted to the subgraph, in order
  tasks,         \* each fetch function's call: where it stands, what it got
  awaited,       \* the promise main awaits: Promise.all(...) or the fetch
  console,       \* the console.error lines and the closing console.log line
  mainResult     \* the promise main() returned

fmtVars == <<amountArg, formatted>>
dispVars == <<script, FILTER_USERS, snapshots, printed>>
runVars == <<requests, tasks, awaited, console, mainResult>>
vars == <<pc, fmtVars, dispVars, runVars>>

\* ----------------------------------------------------------------- strings
\* null / undefined / a field the response does not carry: a value that is
\* no string (every character of a string is one character long).
Absent == <<"undefined">>

Digits == <<"0", "1", "2", "3", "4", "5", "6", "7", "8", "9">>

IsDigit(c) == \E d \in 1..10 : Digits[d] = c

DigitVal(c) == (CHOOSE d \in 1..10 : Digits[d] = c) - 1

UpperCase == <<"A", "B", "C", "D", "E", "F">>
LowerCase == <<"a", "b", "c", "d", "e", "f">>

\* String.prototype.toLowerCase on the address alphabet: an upper-case letter
\* becomes its lower-case letter, every other character is kept.
toLowerCaseChar(c) ==
  IF \E i \in 1..Len(UpperCase) : UpperCase[i] = c
  THEN LowerCase[CHOOSE i \in 1..Len(UpperCase) : UpperCase[i] = c]
  ELSE c

toLowerCase(s) == [i \in 1..Len(s) |-> toLowerCaseChar(s[i])]

\* Array.prototype.includes on an array of strings: strict equality.
includes(arr, s) == \E i \in 1..Len(arr) : arr[i] = s

\* ----------------------------------------------------------------- numbers
NaN == [nan |-> TRUE, neg |-> FALSE, mant |-> 0, exp |-> 0]

RECURSIVE Normalise(_)
\* The same number with no trailing zero in its fraction.
Normalise(d) ==
  IF d.exp > 0 /\ d.mant % 10 = 0
  THEN Normalise([d EXCEPT !.mant = d.mant \div 10, !.exp = d.exp - 1])
  ELSE d

Dec(neg, mant, exp) == Normalise([nan |-> FALSE, neg |-> neg, mant |-> mant, exp |-> exp])

Zero == Dec(FALSE, 0, 0)

RECURSIVE Pow10(_)
Pow10(k) == IF k = 0 THEN 1 ELSE 10 * Pow10(k - 1)

RECURSIVE DivPow10(_, _)
\* m div 10^k without forming 10^k.
DivPow10(m, k) == IF k = 0 \/ m = 0 THEN m ELSE DivPow10(m \div 10, k - 1)

\* The signed mantissa of d written with e fractional digits (e >= d.exp).
Scaled(d, e) == (IF d.neg THEN -1 ELSE 1) * d.mant * Pow10(e - d.exp)

Max(a, b) == IF a >= b THEN a ELSE b

FromScaled(m, e) == IF m < 0 THEN Dec(TRUE, -m, e) ELSE Dec(FALSE, m, e)

\* a + b and a - b; NaN is contagious.
NumAdd(a, b) ==
  IF a.nan \/ b.nan THEN NaN
  ELSE LET e == Max(a.exp, b.exp) IN FromScaled(Scaled(a, e) + Scaled(b, e), e)

NumSub(a, b) ==
  IF a.nan \/ b.nan THEN NaN
  ELSE LET e == Max(a.exp, b.exp) IN FromScaled(Scaled(a, e) - Scaled(b, e), e)

\* x === 0 (true of -0 as well, false of NaN).
NumIsZero(d) == ~d.nan /\ d.mant = 0

\* x >= 1 and x > 0 (both false of NaN).
NumGeOne(d) == ~d.nan /\ ~d.neg /\ DivPow10(d.mant, d.exp) >= 1

NumGtZero(d) == ~d.nan /\ ~d.neg /\ d.mant > 0

\* a > b (false when either is NaN).
NumGt(a, b) ==
  /\ ~a.nan /\ ~b.nan
  /\ LET e == Max(a.exp, b.exp) IN Scaled(a, e) > Scaled(b, e)

\* |x| >= 1 and 0 < |x| < 1: the magnitude classes of the formatter contract.
MagnitudeGeOne(d) == ~d.nan /\ DivPow10(d.mant, d.exp) >= 1

MagnitudeBelowOne(d) == ~d.nan /\ d.mant > 0 /\ DivPow10(d.mant, d.exp) = 0

\* ------------------------------------------------- parsing and formatting
RECURSIVE DigitRun(_, _)
\* How many digit characters s holds from position i on, without a break.
DigitRun(s, i) ==
  IF i <= Len(s) /\ IsDigit(s[i]) THEN 1 + DigitRun(s, i + 1) ELSE 0

RECURSIVE DigitsToNat(_)
DigitsToNat(ds) ==
  IF ds = <<>> THEN 0
  ELSE 10 * DigitsToNat(SubSeq(ds, 1, Len(ds) - 1)) + DigitVal(ds[Len(ds)])

RECURSIVE NatToDigits(_)
NatToDigits(n) ==
  IF n < 10 THEN <<Digits[n + 1]>>
  ELSE NatToDigits(n \div 10) \o <<Digits[(n % 10) + 1]>>

Zeros(k) == [i \in 1..k |-> "0"]

\* parseFloat: the longest prefix [+-] digits [. digits] of the string, NaN
\* when that prefix holds no digit.  (The amount alphabet has no white space
\* and no exponent letter.)
parseFloat(s) ==
  LET signLen == IF Len(s) >= 1 /\ s[1] \in {"-", "+"} THEN 1 ELSE 0
      neg     == signLen = 1 /\ s[1] = "-"
      i0      == signLen + 1
      nInt    == DigitRun(s, i0)
      dot     == i0 + nInt <= Len(s) /\ s[i0 + nInt] = "."
      nFrac   == IF dot THEN DigitRun(s, i0 + nInt + 1) ELSE 0
      ds      == SubSeq(s, i0, i0 + nInt - 1)
                   \o SubSeq(s, i0 + nInt + 1, i0 + nInt + nFrac)
  IN  IF nInt + nFrac = 0 THEN NaN ELSE Dec(neg, DigitsToNat(ds), nFrac)

\* The digits of the mantissa, left-padded so that an integer digit exists.
MantDigits(d) ==
  LET ds == NatToDigits(d.mant)
  IN  IF Len(ds) < d.exp + 1 THEN Zeros(d.exp + 1 - Len(ds)) \o ds ELSE ds

IntDigits(d) == SubSeq(MantDigits(d), 1, Len(MantDigits(d)) - d.exp)

FracDigits(d) ==
  SubSeq(MantDigits(d), Len(MantDigits(d)) - d.exp + 1, Len(MantDigits(d)))

SignOf(d) == IF d.neg /\ d.mant # 0 THEN <<"-">> ELSE <<>>

\* Number.prototype.toString for the magnitudes the totals take (at least
\* 1e-6 and below 1e21, where JavaScript writes no exponent).
NumToString(d) ==
  IF d.nan THEN <<"N", "a", "N">>
  ELSE SignOf(d) \o IntDigits(d)
         \o (IF d.exp > 0 THEN <<".">> \o FracDigits(d) ELSE <<>>)

RECURSIVE IncDigits(_)
\* The digit string plus one.
IncDigits(ds) ==
  IF ds = <<>> THEN <<"1">>
  ELSE IF ds[Len(ds)] = "9"
       THEN IncDigits(SubSeq(ds, 1, Len(ds) - 1)) \o <<"0">>
       ELSE SubSeq(ds, 1, Len(ds) - 1) \o <<Digits[DigitVal(ds[Len(ds)]) + 2]>>

\* Number.prototype.toFixed(n), n >= 1: the number rounded to n fractional
\* digits (a tie goes away from zero), written with exactly n of them.
toFixed(d, n) ==
  IF d.nan THEN <<"N", "a", "N">>
  ELSE IF d.exp <= n
       THEN SignOf(d) \o IntDigits(d) \o <<".">> \o FracDigits(d) \o Zeros(n - d.exp)
       ELSE LET kept    == IntDigits(d) \o SubSeq(FracDigits(d), 1, n)
                up      == DigitVal(FracDigits(d)[n + 1]) >= 5
                rounded == IF up THEN IncDigits(kept) ELSE kept
            IN  SignOf(d) \o SubSeq(rounded, 1, Len(rounded) - n)
                  \o <<".">> \o SubSeq(rounded, Len(rounded) - n + 1, Len(rounded))

\* The two precisions of formatTokenAmount.
LargePrecision == 6
SmallPrecision == 12

\* !amount: null, undefined and the empty string are falsy.
Falsy(amount) == amount = Absent \/ amount = <<>>

\* formatTokenAmount without the test of the parsed number against zero.
formatTokenAmountUnchecked(amount) ==
  IF Falsy(amount) \/ amount = <<"0">> THEN <<"0">>
  ELSE LET numAmount == parseFloat(amount)
       IN  IF NumGeOne(numAmount) THEN toFixed(numAmount, LargePrecision)
           ELSE toFixed(numAmount, SmallPrecision)

formatTokenAmount(amount) ==
  IF Falsy(amount) \/ amount = <<"0">> THEN <<"0">>
  ELSE LET numAmount == parseFloat(amount)
       IN  IF NumIsZero(numAmount) THEN <<"0">>
           ELSE IF NumGeOne(numAmount) THEN toFixed(numAmount, LargePrecision)
           ELSE toFixed(numAmount, SmallPrecision)

\* ------------------------------------------------------- JavaScript objects
\* An object used as a map from string keys to arrays: its entries
\* [key, value] in the order Object.entries and Object.keys list them, which
\* is array-index keys first, in ascending numeric order, then the other
\* keys in the order they were created.

\* A canonical array index: digits only, no leading zero, below 2^32 - 1
\* (every such key of at most nine digits; the ids of the model are shorter).
IsArrayIndex(key) ==
  /\ Len(key) \in 1..9
  /\ \A i \in 1..Len(key) : IsDigit(key[i])
  /\ (Len(key) = 1 \/ key[1] # "0")

ObjHas(obj, key) == \E i \in 1..Len(obj) : obj[i].key = key

ObjIndex(obj, key) == CHOOSE i \in 1..Len(obj) : obj[i].key = key

\* Whether a new key is listed before the existing key `other`.
KeyBefore(key, other) ==
  /\ IsArrayIndex(key)
  /\ (~IsArrayIndex(other) \/ DigitsToNat(key) < DigitsToNat(other))

\* How many entries stay in front of a newly created key.
InsertAt(obj, key) == Cardinality({i \in 1..Len(obj) : ~KeyBefore(key, obj[i].key)})

\* ObjPush with the array replaced, not extended, on a key seen before.
ObjPushOverwriting(obj, key, item) ==
  IF ObjHas(obj, key)
  THEN [obj EXCEPT ![ObjIndex(obj, key)].value = <<item>>]
  ELSE LET k == InsertAt(obj, key)
       IN  SubSeq(obj, 1, k) \o <<[key |-> key, value |-> <<item>>]>>
             \o SubSeq(obj, k + 1, Len(obj))

\* ObjPush with the item put in front of the array, not after it.
ObjPushPrepending(obj, key, item) ==
  IF ObjHas(obj, key)
  THEN [obj EXCEPT ![ObjIndex(obj, key)].value = <<item>> \o @]
  ELSE LET k == InsertAt(obj, key)
       IN  SubSeq(obj, 1, k) \o <<[key |-> key, value |-> <<item>>]>>
             \o SubSeq(obj, k + 1, Len(obj))

\* if (!obj[key]) obj[key] = [];  obj[key].push(item)
ObjPush(obj, key, item) ==
  IF ObjHas(obj, key)
  THEN [obj EXCEPT ![ObjIndex(obj, key)].value = Append(@, item)]
  ELSE LET k == InsertAt(obj, key)
       IN  SubSeq(obj, 1, k) \o <<[key |-> key, value |-> <<item>>]>>
             \o SubSeq(obj, k + 1, Len(obj))

RECURSIVE GroupInto(_, _)
\* The forEach loops that group: pairs of [key, item] pushed in order; a
\* pair whose key is falsy is skipped where the code tests the key.
GroupInto(obj, pairs) ==
  IF pairs = <<>> THEN obj
  ELSE GroupInto(ObjPush(obj, Head(pairs).key, Head(pairs).item), Tail(pairs))

ByPool(snaps) == GroupInto(<<>>, [i \in 1..Len(snaps) |-> [key |-> snaps[i].pool, item |-> snaps[i]]])

ByUser(snaps) == GroupInto(<<>>, [i \in 1..Len(snaps) |-> [key |-> snaps[i].owner, item |-> snaps[i]]])

\* HasPositionId without the test: every snapshot is grouped.
HasPositionIdUntested(s) == TRUE

\* const positionId = snapshot.position?.id; if (positionId) ...
HasPositionId(s) == ~Falsy(s.position)

ByPosition(snaps) ==
  LET withId == SelectSeq(snaps, HasPositionId)
  IN  GroupInto(<<>>, [i \in 1..Len(withId) |-> [key |-> withId[i].position, item |-> withId[i]]])

RECURSIVE SortByActivity(_)
\* entries.sort(([, a], [, b]) => b.length - a.length): a stable sort by
\* descending group size.
SortByActivity(entries) ==
  IF entries = <<>> THEN <<>>
  ELSE LET rest   == SortByActivity(SubSeq(entries, 1, Len(entries) - 1))
           last   == entries[Len(entries)]
           k      == Cardinality({i \in 1..Len(rest) :
                                    Len(rest[i].value) >= Len(last.value)})
       IN  SubSeq(rest, 1, k) \o <<last>> \o SubSeq(rest, k + 1, Len(rest))

\* ------------------------------------------------------------- aggregation
AmountFields ==
  <<"depositedToken0", "depositedToken1", "withdrawnToken0", "withdrawnToken1",
    "collectedFeesToken0", "collectedFeesToken1">>

\* parseFloat(x || 0)
Amt(x) == parseFloat(IF Falsy(x) THEN <<"0">> ELSE x)

\* Total with the amount assigned, not added.
TotalAssigned(snaps, f) ==
  IF snaps = <<>> THEN Zero ELSE Amt(snaps[Len(snaps)][f])

RECURSIVE Total(_, _)
\* let total = 0; snapshots.forEach(s => total += parseFloat(s[f] || 0))
Total(snaps, f) ==
  IF snaps = <<>> THEN Zero
  ELSE NumAdd(Total(SubSeq(snaps, 1, Len(snaps) - 1), f), Amt(snaps[Len(snaps)][f]))

\* MaxLiquidity with the liquidity assigned without the comparison.
MaxLiquidityUncompared(snaps) ==
  IF snaps = <<>> THEN Zero ELSE Amt(snaps[Len(snaps)].liquidity)

RECURSIVE MaxLiquidity(_)
\* let maxLiquidity = 0; if (liquidity > maxLiquidity) maxLiquidity = liquidity
MaxLiquidity(snaps) ==
  IF snaps = <<>> THEN Zero
  ELSE LET m == MaxLiquidity(SubSeq(snaps, 1, Len(snaps) - 1))
           l == Amt(snaps[Len(snaps)].liquidity)
       IN  IF NumGt(l, m) THEN l ELSE m

\* let currentLiquidity = 0; if (snapshot === positionSnapshots[0]) ... :
\* the liquidity of the last element that is the first object (ids stand for
\* object identity).
CurrentLiquidity(snaps) ==
  LET same == {i \in 1..Len(snaps) : snaps[i].id = snaps[1].id}
  IN  IF same = {} THEN Zero
      ELSE Amt(snaps[CHOOSE i \in same : \A j \in same : j <= i].liquidity)

\* NetPosition floored at zero.
NetPositionFloored(totalDeposited, totalWithdrawn) ==
  IF NumGt(totalWithdrawn, totalDeposited) THEN Zero
  ELSE NumSub(totalDeposited, totalWithdrawn)

NetPosition(totalDeposited, totalWithdrawn) == NumSub(totalDeposited, totalWithdrawn)

hasDeposits(s) == NumGtZero(Amt(s.depositedToken0)) \/ NumGtZero(Amt(s.depositedToken1))

hasWithdrawals(s) == NumGtZero(Amt(s.withdrawnToken0)) \/ NumGtZero(Amt(s.withdrawnToken1))

hasFees(s) == NumGtZero(Amt(s.collectedFeesToken0)) \/ NumGtZero(Amt(s.collectedFeesToken1))

\* Significant with the deposits as the only test.
SignificantDepositsOnly(s) == hasDeposits(s)

Significant(s) == hasDeposits(s) \/ hasWithdrawals(s) \/ hasFees(s)

\* significantSnapshots.slice(0, 5)
TimelineLimit == 5

\* Slice without the cut.
SliceAll(seq, k) == seq

Slice(seq, k) == SubSeq(seq, 1, IF Len(seq) < k THEN Len(seq) ELSE k)

\* The six amounts of a snapshot as its lines print them.
FormattedAmounts(s) == [i \in 1..Len(AmountFields) |-> formatTokenAmount(s[AmountFields[i]])]

\* One numbered timeline entry: which of the three lines it prints.
TimelineEntry(s, index) ==
  [index |-> index, id |-> s.id,
   deposited |-> hasDeposits(s), withdrawn |-> hasWithdrawals(s), fees |-> hasFees(s),
   amounts |-> FormattedAmounts(s)]

\* What displayPositionTransactions prints for one entry of sortedPositions.
PositionBlock(entry) ==
  LET positionSnapshots == entry.value
      firstSnapshot     == positionSnapshots[1]
      totals            == [i \in 1..Len(AmountFields) |->
                              Total(positionSnapshots, AmountFields[i])]
      netToken0         == NetPosition(totals[1], totals[3])
      netToken1         == NetPosition(totals[2], totals[4])
      significantSnapshots == SelectSeq(positionSnapshots, Significant)
      shown             == Slice(significantSnapshots, TimelineLimit)
  IN  [positionId       |-> entry.key,
       owner            |-> firstSnapshot.owner,
       pool             |-> firstSnapshot.pool,
       snapshots        |-> [i \in 1..Len(positionSnapshots) |-> positionSnapshots[i].id],
       activity         |-> Len(positionSnapshots),
       currentLiquidity |-> CurrentLiquidity(positionSnapshots),
       maxLiquidity     |-> MaxLiquidity(positionSnapshots),
       totals           |-> totals,
       totalsPrinted    |-> [i \in 1..Len(AmountFields) |->
                               formatTokenAmount(NumToString(totals[i]))],
       netToken0        |-> netToken0,
       netToken1        |-> netToken1,
       netPrinted       |-> <<formatTokenAmount(NumToString(netToken0)),
                              formatTokenAmount(NumToString(netToken1))>>,
       significant      |-> Len(significantSnapshots),
       timeline         |-> [i \in 1..Len(shown) |-> TimelineEntry(shown[i], i)],
       moreEvents       |-> IF Len(significantSnapshots) > TimelineLimit
                            THEN Len(significantSnapshots) - TimelineLimit ELSE 0]

\* displayPositionTransactions(snapshots): the blocks it prints and its
\* summary; nothing but a notice when no snapshot carries a position id.
displayPositionTransactions(snaps) ==
  LET snapshotsByPosition == ByPosition(snaps)
      sortedPositions     == SortByActivity(snapshotsByPosition)
  IN  IF Len(snapshotsByPosition) = 0
      THEN [found |-> FALSE, positions |-> <<>>, summary |-> Absent]
      ELSE [found     |-> TRUE,
            positions |-> [i \in 1..Len(sortedPositions) |-> PositionBlock(sortedPositions[i])],
            summary   |-> [uniquePositions |-> Len(sortedPositions),
                           mostActive      |-> sortedPositions[1].key,
                           mostActiveCount |-> Len(sortedPositions[1].value),
                           averageOf       |-> Len(SelectSeq(snaps, HasPositionId)),
                           averageOver     |-> Len(sortedPositions)]]

\* ----------------------------------------------------------------- display
\* One snapshot block under a user heading.
SnapshotLine(s, index) ==
  [index |-> index, id |-> s.id,
   positionId |-> IF Falsy(s.position) THEN <<"N", "/", "A">> ELSE s.position,
   liquidity |-> s.liquidity,
   amounts |-> FormattedAmounts(s)]

UserBlock(entry) ==
  [owner |-> entry.key, count |-> Len(entry.value),
   lines |-> [i \in 1..Len(entry.value) |-> SnapshotLine(entry.value[i], i)]]

PoolBlock(entry) ==
  LET snapshotsByUser == ByUser(entry.value)
  IN  [poolId |-> entry.key, count |-> Len(entry.value),
       users  |-> [i \in 1..Len(snapshotsByUser) |-> UserBlock(snapshotsByUser[i])]]

\* The pool / user listing and the summary both displayPositionSnapshots of
\* part_000 print for the sequence they display.
Listing(shown) ==
  LET snapshotsByPool == ByPool(shown)
  IN  [pools   |-> [i \in 1..Len(snapshotsByPool) |-> PoolBlock(snapshotsByPool[i])],
       summary |-> [totalSnapshots |-> Len(shown),
                    totalUsers     |-> Cardinality({shown[i].owner : i \in 1..Len(shown)}),
                    totalPositions |-> Cardinality({shown[i].position : i \in
                                         {j \in 1..Len(shown) : HasPositionId(shown[j])}}),
                    poolsCovered   |-> Len(snapshotsByPool)]]

NoListing == [pools |-> <<>>, summary |-> Absent]

NoTransactions == [found |-> FALSE, positions |-> <<>>, summary |-> Absent]

\* FilterByUsers with the test negated.
FilterByUsersNegated(snaps, users) ==
  LET keep(s) == ~includes(users, toLowerCase(s.owner))
  IN  SelectSeq(snaps, keep)

\* snapshots.filter(s => FILTER_USERS.includes(s.owner.toLowerCase()))
FilterByUsers(snaps, users) ==
  LET keep(s) == includes(users, toLowerCase(s.owner))
  IN  SelectSeq(snaps, keep)

\* displayPositionSnapshots of the allow-list script: everything it prints.
displayFiltered(snaps, users) ==
  LET filteredSnapshots == FilterByUsers(snaps, users)
  IN  IF Len(filteredSnapshots) = 0
      THEN [filtered |-> filteredSnapshots, empty |-> TRUE, listing |-> NoListing,
            calledTransactions |-> FALSE, transactions |-> NoTransactions]
      ELSE [filtered |-> filteredSnapshots, empty |-> FALSE,
            listing |-> Listing(filteredSnapshots),
            calledTransactions |-> TRUE,
            transactions |-> displayPositionTransactions(filteredSnapshots)]

\* displayPositionSnapshots of the first token-id script: no filter, no
\* position view.
displayAll(snaps) ==
  IF Len(snaps) = 0
  THEN [filtered |-> snaps, empty |-> TRUE, listing |-> NoListing,
        calledTransactions |-> FALSE, transactions |-> NoTransactions]
  ELSE [filtered |-> snaps, empty |-> FALSE, listing |-> Listing(snaps),
        calledTransactions |-> FALSE, transactions |-> NoTransactions]

\* --------------------------------------------- display of the pool script
\* positions.reduce((sum, p) => sum + parseFloat(p.liquidity), 0)
RECURSIVE TotalLiquidity(_)
TotalLiquidity(positions) ==
  IF positions = <<>> THEN Zero
  ELSE NumAdd(TotalLiquidity(SubSeq(positions, 1, Len(positions) - 1)),
              parseFloat(positions[Len(positions)].liquidity))

displayPoolInfo(pool) == [poolId |-> pool.id]

\* position.tickLower.tickIdx and position.tickUpper.tickIdx throw a
\* TypeError on a position whose tick bound is null.
TickRangeThrows(position) == Falsy(position.tickLower) \/ Falsy(position.tickUpper)

\* How many elements precede the first one whose tick range throws.
PrintedBeforeThrow(positions) ==
  Cardinality({i \in 1..Len(positions) :
                 \A j \in 1..i : ~TickRangeThrows(positions[j])})

\* displayCurrentPositions(positions, pool): the positions under their
\* owners and the summary; the owner blocks stop at the first position whose
\* tick range throws, and no summary follows.
displayCurrentPositions(positions, pool) ==
  LET positionsByOwner == ByUser(positions)
      complete(entry)  == PrintedBeforeThrow(entry.value) = Len(entry.value)
      reached          == Cardinality({i \in 1..Len(positionsByOwner) :
                                         \A j \in 1..(i - 1) : complete(positionsByOwner[j])})
      block(entry)     == [owner |-> entry.key, count |-> Len(entry.value),
                           lines |-> [i \in 1..PrintedBeforeThrow(entry.value) |->
                                        SnapshotLine(entry.value[i], i)]]
      threw            == \E i \in 1..Len(positions) : TickRangeThrows(positions[i])
  IN  IF Len(positions) = 0
      THEN [empty |-> TRUE, threw |-> FALSE, owners |-> <<>>, summary |-> FALSE,
            total |-> 0, totalLiquidity |-> Zero]
      ELSE [empty |-> FALSE, threw |-> threw,
            owners |-> [i \in 1..reached |-> block(positionsByOwner[i])],
            summary |-> ~threw,
            total |-> IF threw THEN 0 ELSE Len(positions),
            totalLiquidity |-> IF threw THEN Zero ELSE TotalLiquidity(positions)]

\* positionSnapshots.slice(0, 3)
RecentLimit == 3

RecentBlock(entry) ==
  LET positionSnapshots == entry.value
      recentSnapshots   == Slice(positionSnapshots, RecentLimit)
  IN  [positionId |-> entry.key,
       owner      |-> positionSnapshots[1].owner,
       count      |-> Len(positionSnapshots),
       recent     |-> [i \in 1..Len(recentSnapshots) |-> SnapshotLine(recentSnapshots[i], i)],
       more       |-> IF Len(positionSnapshots) > RecentLimit
                      THEN Len(positionSnapshots) - RecentLimit ELSE 0]

\* displayPositionSnapshots(snapshots, pool) of the pool script: the
\* positions by descending activity, three snapshots of each, the summary.
displayRecent(snaps, pool) ==
  LET sortedPositions == SortByActivity(ByPosition(snaps))
  IN  IF Len(snaps) = 0
      THEN [empty |-> TRUE, positions |-> <<>>, totalSnapshots |-> 0,
            uniquePositions |-> 0, uniqueOwners |-> 0, mostActive |-> Absent]
      ELSE [empty |-> FALSE,
            positions |-> [i \in 1..Len(sortedPositions) |-> RecentBlock(sortedPositions[i])],
            totalSnapshots |-> Len(snaps),
            uniquePositions |-> Len(sortedPositions),
            uniqueOwners |-> Cardinality({snaps[i].owner : i \in 1..Len(snaps)}),
            mostActive |-> IF Len(sortedPositions) > 0 THEN sortedPositions[1].key
                           ELSE Absent]

\* ------------------------------------------------------------- the fetches
POOL_ID == <<"0", "x", "c", "0">>

KHYPE_TOKEN_ID == <<"0", "x", "f", "d">>

PoolFetches == {"fetchPoolInfo", "fetchCurrentPositions", "fetchPositionSnapshots"}

TokenFetches == {"fetchKHypePools", "fetchKHypePositionSnapshots"}

Fetches == PoolFetches \cup TokenFetches

\* The query each function posts.
QueryOf(f) ==
  CASE f = "fetchPoolInfo" -> "POOL_INFO_QUERY"
    [] f = "fetchCurrentPositions" -> "CURRENT_POSITIONS_QUERY"
    [] f = "fetchPositionSnapshots" -> "POSITION_SNAPSHOTS_QUERY"
    [] f = "fetchKHypePools" -> "ALL_POOLS_QUERY"
    [] f = "fetchKHypePositionSnapshots" -> "POSITION_SNAPSHOTS_QUERY"

\* A parsed response: whether it carries `errors`, whether data holds the
\* field the function reads, and that field.
NoBody == [errors |-> FALSE, present |-> FALSE, entity |-> Absent]

IdleTask ==
  [pc |-> "idle", transport |-> "none", parsed |-> "none", body |-> NoBody,
   error |-> "none", value |-> Absent]

Ok(v) == [error |-> "none", value |-> v]

Err(kind) == [error |-> kind, value |-> Absent]

\* The function bodies after `const data = await response.json()`.
\* fetchPoolInfo without the test for a missing pool.
fetchPoolInfoUnchecked(data) ==
  IF data.errors THEN Err("graphql") ELSE Ok(data.entity)

fetchPoolInfo(data) ==
  IF data.errors THEN Err("graphql")
  ELSE IF ~data.present THEN Err("missing")
  ELSE Ok(data.entity)

\* data.data.positions.length throws a TypeError when the field is missing.
fetchCurrentPositions(data) ==
  IF data.errors THEN Err("graphql")
  ELSE IF ~data.present THEN Err("missing")
  ELSE Ok(data.entity)

fetchPositionSnapshots(data) ==
  IF data.errors THEN Err("graphql")
  ELSE IF ~data.present THEN Err("missing")
  ELSE Ok(data.entity)

\* ContainsKHype with the test of token1 left out.
ContainsKHypeAsToken0(pool) == toLowerCase(pool.token0) = toLowerCase(KHYPE_TOKEN_ID)

\* pool.token0.id.toLowerCase() === KHYPE_TOKEN_ID.toLowerCase() || ... token1 ...
ContainsKHype(pool) ==
  \/ toLowerCase(pool.token0) = toLowerCase(KHYPE_TOKEN_ID)
  \/ toLowerCase(pool.token1) = toLowerCase(KHYPE_TOKEN_ID)

\* allPools.filter throws a TypeError when data.data.pools is missing.
fetchKHypePools(data) ==
  IF data.errors THEN Err("graphql")
  ELSE IF ~data.present THEN Err("missing")
  ELSE Ok(SelectSeq(data.entity, ContainsKHype))

fetchKHypePositionSnapshots(data) ==
  IF data.errors THEN Err("graphql")
  ELSE IF ~data.present THEN Err("missing")
  ELSE Ok(data.entity)

Decode(f, data) ==
  CASE f = "fetchPoolInfo" -> fetchPoolInfo(data)
    [] f = "fetchCurrentPositions" -> fetchCurrentPositions(data)
    [] f = "fetchPositionSnapshots" -> fetchPositionSnapshots(data)
    [] f = "fetchKHypePools" -> fetchKHypePools(data)
    [] f = "fetchKHypePositionSnapshots" -> fetchKHypePositionSnapshots(data)

\* The console.error lines of a function's catch block; the token scripts'
\* snapshot fetch logs a GraphQL error once more before it throws it.
ErrorLine(f) == [level |-> "error", at |-> f, text |-> "Error fetching"]

CatchLines(f, kind) ==
  (IF f = "fetchKHypePositionSnapshots" /\ kind = "graphql"
   THEN <<[level |-> "error", at |-> f, text |-> "GraphQL errors"]>> ELSE <<>>)
    \o <<ErrorLine(f)>>

\* catch (error) { console.error(...); throw error; }  swallowing instead.
RethrowSwallowed(ts, f, kind) ==
  [ts EXCEPT ![f].pc = "fulfilled", ![f].error = kind]

Rethrow(ts, f, kind) == [ts EXCEPT ![f].pc = "rejected", ![f].error = kind]

Return(ts, f, v) == [ts EXCEPT ![f].pc = "fulfilled", ![f].value = v]

Pending == [state |-> "pending", from |-> "none", error |-> "none"]

\* Promise.all over the three calls: rejected by the first rejection,
\* fulfilled once all three are fulfilled.
PromiseAll(ts, f, before) ==
  IF before.state # "pending" THEN before
  ELSE IF ts[f].pc = "rejected"
       THEN [state |-> "rejected", from |-> f, error |-> ts[f].error]
  ELSE IF \A g \in PoolFetches : ts[g].pc = "fulfilled"
       THEN [state |-> "fulfilled", from |-> "none", error |-> "none"]
  ELSE before

\* The promise of the one call main awaits in the token scripts.
PromiseOf(ts, f) ==
  IF ts[f].pc = "rejected" THEN [state |-> "rejected", from |-> f, error |-> ts[f].error]
  ELSE IF ts[f].pc = "fulfilled" THEN [state |-> "fulfilled", from |-> "none", error |-> "none"]
  ELSE Pending

\* SnapshotsRequest with the pool ids left out of the variables.
SnapshotsRequestWithoutIds(kHypePools) ==
  [query |-> "POSITION_SNAPSHOTS_QUERY", variables |-> <<>>]

\* The request of fetchKHypePositionSnapshots: poolIds is kHypePools.map(pool => pool.id).
SnapshotsRequest(kHypePools) ==
  [query |-> "POSITION_SNAPSHOTS_QUERY",
   variables |-> [i \in 1..Len(kHypePools) |-> kHypePools[i].id]]

\* The requests after the catch block of f ran, had it posted the query of
\* f once more.
RequestsAfterCatchRetrying(reqs, f) ==
  Append(reqs, [query |-> QueryOf(f), variables |-> <<>>])

\* The requests after the catch block of f ran: it logs and throws, it posts
\* nothing.
RequestsAfterCatch(reqs, f) == reqs

\* Function f ends with `out` (its tasks record ts already holds what was
\* delivered): its return or its catch block, and what follows at once in
\* the functions awaiting it.
Finish(f, ts, out) ==
  LET failed == out.error # "none"
      ts1    == IF failed THEN Rethrow(ts, f, out.error) ELSE Return(ts, f, out.value)
      outer  == "fetchKHypePositionSnapshots"
      reqs   == IF failed THEN RequestsAfterCatch(requests, f) ELSE requests
  IN  IF f \in PoolFetches
      THEN /\ tasks' = ts1
           /\ console' = console \o (IF failed THEN CatchLines(f, out.error) ELSE <<>>)
           /\ awaited' = PromiseAll(ts1, f, awaited)
           /\ requests' = reqs
      ELSE IF f = "fetchKHypePools"
      THEN IF failed
           THEN LET ts2 == Rethrow(ts1, outer, out.error)
                IN  /\ tasks' = ts2
                    /\ console' = console \o CatchLines(f, out.error)
                                    \o CatchLines(outer, "rethrown")
                    /\ awaited' = PromiseOf(ts2, outer)
                    /\ requests' = RequestsAfterCatch(reqs, outer)
           ELSE /\ tasks' = [ts1 EXCEPT ![outer].pc = "awaitFetch"]
                /\ requests' = Append(requests, SnapshotsRequest(out.value))
                /\ UNCHANGED <<console, awaited>>
      ELSE /\ tasks' = ts1
           /\ console' = console \o (IF failed THEN CatchLines(f, out.error) ELSE <<>>)
           /\ awaited' = PromiseOf(ts1, f)
           /\ requests' = reqs

\* -------------------------------------------------------------- the inputs
AmountAlphabet == {"0", "1", "5", ".", "-"}

\* Amount strings of the subgraph's decimal alphabet, well formed or not,
\* and the amounts the documentation gives as examples.
AmountInputs ==
  UNION {[1..n -> AmountAlphabet] : n \in 0..MaxAmountLen}
    \cup {Absent,
          <<"2">>, <<"2", ".", "5">>, <<"-", "2", ".", "5">>,
          <<"0", ".", "0", "0", "0", "0", "0", "0", "0", "0", "0", "1">>,
          <<"1", ".", "2", "3", "4", "5", "6", "7", "8">>,
          <<"0", ".", "0", "0", "0", "0", "0", "0", "0", "0", "0", "0", "0", "0", "1">>}

Owners == {<<"0", "x", "a">>, <<"0", "x", "A">>, <<"0", "x", "b">>}

PoolIds == {<<"0", "x", "c">>, <<"0", "x", "d">>}

\* The allow-lists the script is run with: the empty one, lower-case and
\* mixed-case entries.
AllowLists ==
  {<<>>, << <<"0", "x", "a">> >>, << <<"0", "x", "A">> >>,
   << <<"0", "x", "a">>, <<"0", "x", "b">> >>}

\* liquidity and the six amounts of a snapshot.
Quiet ==
  [liquidity |-> <<"2", "0">>,
   depositedToken0 |-> <<"0">>, depositedToken1 |-> <<"0">>,
   withdrawnToken0 |-> <<"0">>, withdrawnToken1 |-> <<"0">>,
   collectedFeesToken0 |-> <<"0">>, collectedFeesToken1 |-> <<"0">>]

Deposit ==
  [Quiet EXCEPT !.liquidity = <<"1", "0">>,
                !.depositedToken0 = <<"2">>, !.withdrawnToken0 = <<"0", ".", "5">>,
                !.depositedToken1 = Absent, !.collectedFeesToken1 = Absent]

TopUp ==
  [Quiet EXCEPT !.liquidity = <<"3", "0">>, !.depositedToken0 = <<"1">>]

Withdrawal ==
  [Quiet EXCEPT !.liquidity = Absent,
                !.withdrawnToken0 = <<"3">>, !.withdrawnToken1 = <<"1", ".", "5">>,
                !.collectedFeesToken1 = <<"0", ".", "2", "5">>]

Activities == {Quiet, Deposit, TopUp, Withdrawal}

Snapshot(i, n, owner, pool, position, a) ==
  [id |-> i, timestamp |-> n - i + 1, owner |-> owner, pool |-> pool,
   position |-> position, liquidity |-> a.liquidity,
   depositedToken0 |-> a.depositedToken0, depositedToken1 |-> a.depositedToken1,
   withdrawnToken0 |-> a.withdrawnToken0, withdrawnToken1 |-> a.withdrawnToken1,
   collectedFeesToken0 |-> a.collectedFeesToken0,
   collectedFeesToken1 |-> a.collectedFeesToken1]

\* Sequences of at most MaxSnapshots snapshots, newest first, as a response
\* ordered by descending timestamp lists them; each snapshot is one of
\* `choices`, tuples <<owner, pool, position, activity>>.
SnapshotSeqsUpTo(choices, max) ==
  UNION {
    {[i \in 1..n |-> Snapshot(i, n, c[i][1], c[i][2], c[i][3], c[i][4])] :
       c \in [1..n -> choices]}
    : n \in 0..max}

SnapshotSeqs(choices) == SnapshotSeqsUpTo(choices, MaxSnapshots)

\* What the subgraph may answer to each function's query.
ThePool == [id |-> POOL_ID]

OtherToken == <<"0", "x", "e", "e">>

PoolLists ==
  {<<>>,
   <<[id |-> <<"0", "x", "c">>, token0 |-> KHYPE_TOKEN_ID, token1 |-> OtherToken],
     [id |-> <<"0", "x", "e">>, token0 |-> OtherToken, token1 |-> OtherToken],
     [id |-> <<"0", "x", "d">>, token0 |-> OtherToken, token1 |-> <<"0", "x", "F", "D">>]>>,
   <<[id |-> <<"0", "x", "e">>, token0 |-> OtherToken, token1 |-> OtherToken]>>}

PoolSnapshotSeqs ==
  {<<>>,
   <<Snapshot(1, 2, <<"0", "x", "a">>, POOL_ID, <<"7">>, Deposit),
     Snapshot(2, 2, <<"0", "x", "b">>, POOL_ID, <<"1", "2">>, TopUp)>>}

\* A position of the pool as CURRENT_POSITIONS_QUERY returns it; a tick
\* bound the subgraph does not resolve is null.
CurrentPosition(i, owner, tickLower) ==
  [id |-> i, owner |-> owner, position |-> <<"7">>, liquidity |-> <<"1", "0">>,
   tickLower |-> tickLower, tickUpper |-> <<"6", "0">>,
   depositedToken0 |-> <<"2">>, depositedToken1 |-> <<"0">>,
   withdrawnToken0 |-> <<"0">>, withdrawnToken1 |-> <<"0">>,
   collectedFeesToken0 |-> <<"0">>, collectedFeesToken1 |-> <<"0">>]

CurrentPositionLists ==
  {<<>>,
   <<CurrentPosition(1, <<"0", "x", "a">>, <<"-", "6", "0">>),
     CurrentPosition(2, <<"0", "x", "b">>, <<"0">>)>>,
   <<CurrentPosition(1, <<"0", "x", "a">>, <<"-", "6", "0">>),
     CurrentPosition(2, <<"0", "x", "b">>, Absent),
     CurrentPosition(3, <<"0", "x", "a">>, <<"0">>)>>}

Entities(f) ==
  CASE f = "fetchPoolInfo" -> {ThePool}
    [] f = "fetchCurrentPositions" -> CurrentPositionLists
    [] f = "fetchPositionSnapshots" -> PoolSnapshotSeqs
    [] f = "fetchKHypePools" -> PoolLists
    [] f = "fetchKHypePositionSnapshots" ->
         SnapshotSeqs({<<"0", "x", "a">>, <<"0", "x", "B">>} \X {<<"0", "x", "c">>}
                        \X {<<"7">>} \X {Deposit})

Bodies(f) ==
  {[errors |-> e, present |-> FALSE, entity |-> Absent] : e \in BOOLEAN}
    \cup {[errors |-> e, present |-> TRUE, entity |-> v] : e \in BOOLEAN, v \in Entities(f)}

\* ------------------------------------------------------------- the actions
FormatIdle == amountArg = Absent /\ formatted = Absent

DisplayIdle ==
  /\ script = "none"
  /\ FILTER_USERS = <<>>
  /\ snapshots = <<>>
  /\ printed = Absent

\* formatTokenAmount(amount)
FormatTokenAmount ==
  /\ pc = "ready"
  /\ amountArg \in AmountInputs
  /\ formatted' = formatTokenAmount(amountArg)
  /\ pc' = "done"
  /\ UNCHANGED <<amountArg, dispVars, runVars>>

\* displayPositionSnapshots(snapshots) of the allow-list script, with its
\* call of displayPositionTransactions.
DisplayPositionSnapshotsFiltered ==
  /\ script = "filtered"
  /\ pc = "ready"
  /\ pc' = "done"
  /\ printed' = displayFiltered(snapshots, FILTER_USERS)
  /\ UNCHANGED <<fmtVars, script, FILTER_USERS, snapshots, runVars>>

\* displayPositionSnapshots(snapshots) of the script without allow-list.
DisplayPositionSnapshotsAll ==
  /\ script = "all"
  /\ pc = "ready"
  /\ pc' = "done"
  /\ printed' = displayAll(snapshots)
  /\ UNCHANGED <<fmtVars, script, FILTER_USERS, snapshots, runVars>>

\* displayPositionSnapshots(snapshots, pool) of the pool script.
DisplayPositionSnapshotsPool ==
  /\ script = "pool"
  /\ pc = "ready"
  /\ pc' = "done"
  /\ printed' = displayRecent(snapshots, ThePool)
  /\ UNCHANGED <<fmtVars, script, FILTER_USERS, snapshots, runVars>>

RunIdle ==
  /\ requests = <<>>
  /\ tasks = [f \in Fetches |-> IdleTask]
  /\ awaited = Pending
  /\ console = <<>>
  /\ mainResult = [state |-> "pending", returned |-> "none"]

\* main is between its await and the code after it: its continuation is a
\* microtask and runs before any further response is handled.
MainRunnable == pc = "awaiting" /\ awaited.state # "pending"

\* main() of the pool script up to its await: the three calls run to their
\* first await one after the other, each posting its query.
MainStartPool ==
  /\ pc = "start" /\ script = "pool"
  /\ requests' = <<[query |-> QueryOf("fetchPoolInfo"), variables |-> <<POOL_ID>>],
                   [query |-> QueryOf("fetchCurrentPositions"), variables |-> <<POOL_ID>>],
                   [query |-> QueryOf("fetchPositionSnapshots"), variables |-> <<POOL_ID>>]>>
  /\ tasks' = [f \in Fetches |->
                 IF f \in PoolFetches THEN [IdleTask EXCEPT !.pc = "awaitFetch"] ELSE IdleTask]
  /\ pc' = "awaiting"
  /\ UNCHANGED <<fmtVars, dispVars, awaited, console, mainResult>>

\* main() of a token script up to its await: fetchKHypePositionSnapshots
\* calls fetchKHypePools, which posts its query.
MainStartToken ==
  /\ pc = "start" /\ script \in {"all", "filtered"}
  /\ requests' = <<[query |-> QueryOf("fetchKHypePools"), variables |-> <<>>]>>
  /\ tasks' = [tasks EXCEPT !["fetchKHypePools"].pc = "awaitFetch",
                            !["fetchKHypePositionSnapshots"].pc = "awaitPools"]
  /\ pc' = "awaiting"
  /\ UNCHANGED <<fmtVars, dispVars, awaited, console, mainResult>>

\* await fetch(SUBGRAPH_URL, ...) rejects: the transport failed.
FetchRejects(f) ==
  /\ tasks[f].pc = "awaitFetch" /\ ~MainRunnable
  /\ Finish(f, [tasks EXCEPT ![f].transport = "failed"], Err("transport"))
  /\ UNCHANGED <<pc, fmtVars, dispVars, mainResult>>

\* await fetch(SUBGRAPH_URL, ...) resolves with a response.
FetchResolves(f) ==
  /\ tasks[f].pc = "awaitFetch" /\ ~MainRunnable
  /\ tasks' = [tasks EXCEPT ![f].transport = "ok", ![f].pc = "awaitJson"]
  /\ UNCHANGED <<pc, fmtVars, dispVars, requests, awaited, console, mainResult>>

\* await response.json() rejects: the body is no JSON.
JsonRejects(f) ==
  /\ tasks[f].pc = "awaitJson" /\ ~MainRunnable
  /\ Finish(f, [tasks EXCEPT ![f].parsed = "failed"], Err("body"))
  /\ UNCHANGED <<pc, fmtVars, dispVars, mainResult>>

\* await response.json() resolves: the rest of the function runs.
JsonResolves(f) ==
  /\ tasks[f].pc = "awaitJson" /\ ~MainRunnable
  /\ \E data \in Bodies(f) :
       Finish(f, [tasks EXCEPT ![f].parsed = "ok", ![f].body = data], Decode(f, data))
  /\ UNCHANGED <<pc, fmtVars, dispVars, mainResult>>

\* main of the pool script after Promise.all fulfilled: the three displays,
\* the closing line, the returned object; an exception of a display ends in
\* main's catch block, like an error of a fetch.
MainDisplayPool ==
  /\ MainRunnable /\ script = "pool" /\ awaited.state = "fulfilled"
  /\ LET poolInfo          == tasks["fetchPoolInfo"].value
         currentPositions  == tasks["fetchCurrentPositions"].value
         positionSnapshots == tasks["fetchPositionSnapshots"].value
         positionsShown    == displayCurrentPositions(currentPositions, poolInfo)
     IN  IF positionsShown.threw
         THEN /\ printed' = <<displayPoolInfo(poolInfo), positionsShown>>
              /\ console' = Append(console, [level |-> "error", at |-> "main",
                                             text |-> "Failed to fetch"])
              /\ mainResult' = [state |-> "fulfilled", returned |-> "undefined"]
         ELSE /\ printed' = <<displayPoolInfo(poolInfo), positionsShown,
                              displayRecent(positionSnapshots, poolInfo)>>
              /\ console' = Append(console, [level |-> "log", at |-> "main",
                                             text |-> "complete"])
              /\ mainResult' = [state |-> "fulfilled", returned |-> "data"]
  /\ pc' = "done"
  /\ UNCHANGED <<fmtVars, script, FILTER_USERS, snapshots, requests, tasks, awaited>>

\* main of a token script after the fetch fulfilled: displayPositionSnapshots
\* and the returned snapshots.
MainDisplayToken ==
  /\ MainRunnable /\ script \in {"all", "filtered"} /\ awaited.state = "fulfilled"
  /\ snapshots' = tasks["fetchKHypePositionSnapshots"].value
  /\ printed' = IF script = "filtered" THEN displayFiltered(snapshots', FILTER_USERS)
                ELSE displayAll(snapshots')
  /\ mainResult' = [state |-> "fulfilled", returned |-> "data"]
  /\ pc' = "done"
  /\ UNCHANGED <<fmtVars, script, FILTER_USERS, requests, tasks, awaited, console>>

\* catch (error) { console.error('Failed to fetch ...', error); } of main.
MainCatch ==
  /\ MainRunnable /\ awaited.state = "rejected"
  /\ console' = Append(console, [level |-> "error", at |-> "main", text |-> "Failed to fetch"])
  /\ mainResult' = [state |-> "fulfilled", returned |-> "undefined"]
  /\ pc' = "done"
  /\ UNCHANGED <<fmtVars, dispVars, requests, tasks, awaited>>

\* ------------------------------------------------------ the specifications
\* formatTokenAmount on every amount of AmountInputs.
InitFormat ==
  /\ pc = "ready"
  /\ amountArg \in AmountInputs
  /\ formatted = Absent
  /\ DisplayIdle
  /\ RunIdle

NextFormat == FormatTokenAmount

SpecFormat == InitFormat /\ [][NextFormat]_vars

\* The two displayPositionSnapshots on snapshots of several owners and pools.
InitDisplay ==
  /\ pc = "ready"
  /\ FormatIdle
  /\ script \in {"all", "filtered"}
  /\ FILTER_USERS \in (IF script = "filtered" THEN AllowLists ELSE {<<>>})
  /\ snapshots \in SnapshotSeqs(Owners \X PoolIds \X {<<"7">>} \X {Quiet})
  /\ printed = Absent
  /\ RunIdle

NextDisplay == DisplayPositionSnapshotsFiltered \/ DisplayPositionSnapshotsAll

SpecDisplay == InitDisplay /\ [][NextDisplay]_vars

\* The allow-list script's display on the snapshots of one owner, with
\* activity in several positions.
InitPositions ==
  /\ pc = "ready"
  /\ FormatIdle
  /\ script = "filtered"
  /\ FILTER_USERS = << <<"0", "x", "a">> >>
  /\ snapshots \in SnapshotSeqs(
       ({<<"0", "x", "A">>} \X {<<"0", "x", "c">>} \X {<<"7">>, <<"1", "2">>} \X Activities)
         \cup ({<<"0", "x", "A">>} \X {<<"0", "x", "c">>} \X {Absent} \X {Deposit}))
  /\ printed = Absent
  /\ RunIdle

NextPositions == DisplayPositionSnapshotsFiltered

SpecPositions == InitPositions /\ [][NextPositions]_vars

\* The position views of the allow-list script and of the pool script on
\* long histories of two positions.
InitTimeline ==
  /\ pc = "ready"
  /\ FormatIdle
  /\ script \in {"filtered", "pool"}
  /\ FILTER_USERS = (IF script = "filtered" THEN << <<"0", "x", "a">> >> ELSE <<>>)
  /\ snapshots \in SnapshotSeqsUpTo(
       ({<<"0", "x", "a">>} \X {<<"0", "x", "c">>} \X {<<"7">>} \X {Quiet, Deposit})
         \cup ({<<"0", "x", "a">>} \X {<<"0", "x", "c">>} \X {<<"1", "2">>} \X {Deposit}),
       MaxEvents)
  /\ printed = Absent
  /\ RunIdle

NextTimeline == DisplayPositionSnapshotsFiltered \/ DisplayPositionSnapshotsPool

SpecTimeline == InitTimeline /\ [][NextTimeline]_vars

\* The position views of the allow-list script and of the pool script on
\* snapshots with and without a position id.
InitGrouping ==
  /\ pc = "ready"
  /\ FormatIdle
  /\ script \in {"filtered", "pool"}
  /\ FILTER_USERS = (IF script = "filtered" THEN << <<"0", "x", "a">> >> ELSE <<>>)
  /\ snapshots \in SnapshotSeqs(
       {<<"0", "x", "a">>} \X {<<"0", "x", "c">>}
         \X {Absent, <<>>, <<"7">>, <<"1", "2">>} \X {Deposit})
  /\ printed = Absent
  /\ RunIdle

NextGrouping == DisplayPositionSnapshotsFiltered \/ DisplayPositionSnapshotsPool

SpecGrouping == InitGrouping /\ [][NextGrouping]_vars

\* One run of a script: main, the responses in any order, main's end.
InitRun ==
  /\ pc = "start"
  /\ FormatIdle
  /\ script \in {"pool", "all", "filtered"}
  /\ FILTER_USERS \in (IF script = "filtered"
                       THEN {<< <<"0", "x", "a">> >>, << <<"0", "x", "a">>, <<"0", "x", "b">> >>}
                       ELSE {<<>>})
  /\ snapshots = <<>>
  /\ printed = Absent
  /\ RunIdle

NextRun ==
  \/ MainStartPool
  \/ MainStartToken
  \/ \E f \in Fetches : FetchRejects(f)
  \/ \E f \in Fetches : FetchResolves(f)
  \/ \E f \in Fetches : JsonRejects(f)
  \/ \E f \in Fetches : JsonResolves(f)
  \/ MainDisplayPool
  \/ MainDisplayToken
  \/ MainCatch

SpecRun == InitRun /\ [][NextRun]_vars

\* ================================================================== claims
Done == pc = "done"

RECURSIVE SumSeq(_)
SumSeq(ns) == IF ns = <<>> THEN 0 ELSE Head(ns) + SumSeq(Tail(ns))

\* Every printed snapshot line with the pool and user heading it stands under.
PrintedLines ==
  LET pools == printed.listing.pools
  IN  UNION {UNION {{[pool |-> pools[p].poolId, owner |-> pools[p].users[u].owner,
                      id |-> pools[p].users[u].lines[l].id, at |-> <<p, u, l>>] :
                       l \in 1..Len(pools[p].users[u].lines)} :
                    u \in 1..Len(pools[p].users)} :
             p \in 1..Len(pools)}

\* The sequence a displayPositionSnapshots displays: its argument, or the
\* filtered one in the allow-list script.
Displayed == printed.filtered

\* C1: grouping by pool then owner partitions the displayed sequence: each
\* displayed snapshot is printed exactly once, under the heading of its pool
\* and, there, of its owner; pool and owner keys are not repeated; the
\* printed group sizes are the groups' real sizes and sum to the length of
\* the displayed sequence.
C1_GroupingPartitions ==
  (Done /\ ~printed.empty) =>
    LET pools == printed.listing.pools
    IN  /\ \A i \in 1..Len(Displayed) :
             /\ Cardinality({ln \in PrintedLines : ln.id = Displayed[i].id}) = 1
             /\ \A ln \in PrintedLines :
                  ln.id = Displayed[i].id =>
                    ln.pool = Displayed[i].pool /\ ln.owner = Displayed[i].owner
        /\ \A ln \in PrintedLines : \E i \in 1..Len(Displayed) : Displayed[i].id = ln.id
        /\ \A p, q \in 1..Len(pools) : pools[p].poolId = pools[q].poolId => p = q
        /\ \A p \in 1..Len(pools) :
             /\ \A u, v \in 1..Len(pools[p].users) :
                  pools[p].users[u].owner = pools[p].users[v].owner => u = v
             /\ \A u \in 1..Len(pools[p].users) :
                  pools[p].users[u].count = Len(pools[p].users[u].lines)
             /\ SumSeq([u \in 1..Len(pools[p].users) |-> pools[p].users[u].count])
                  = pools[p].count
        /\ SumSeq([p \in 1..Len(pools) |-> pools[p].count]) = Len(Displayed)

\* Three snapshots displayed in two pools, one pool with two owners.
C1_Witness ==
  /\ Done /\ ~printed.empty
  /\ Len(Displayed) = 3
  /\ Len(printed.listing.pools) = 2
  /\ \E p \in 1..Len(printed.listing.pools) : Len(printed.listing.pools[p].users) = 2

IsSubsequence(sub, seq) ==
  /\ \A i \in 1..Len(sub) : sub[i].id \in 1..Len(seq) /\ seq[sub[i].id] = sub[i]
  /\ \A i, j \in 1..Len(sub) : i < j => sub[i].id < sub[j].id

EqualIgnoringCase(a, b) == toLowerCase(a) = toLowerCase(b)

\* C2: with a non-empty allow-list the filtered sequence is a subsequence of
\* the input (same relative order, nothing new) and the owner of each of its
\* snapshots equals an allow-list entry when letter case is ignored.
C2_FilterYieldsAllowedSubsequence ==
  (Done /\ script = "filtered" /\ FILTER_USERS # <<>>) =>
    /\ IsSubsequence(printed.filtered, snapshots)
    /\ \A i \in 1..Len(printed.filtered) :
         \E k \in 1..Len(FILTER_USERS) :
           EqualIgnoringCase(printed.filtered[i].owner, FILTER_USERS[k])

\* The filter kept some snapshots and dropped others.
C2_Witness ==
  /\ Done /\ script = "filtered" /\ FILTER_USERS # <<>>
  /\ Len(printed.filtered) = 2
  /\ Len(snapshots) = 3
  /\ \E i \in 1..Len(printed.filtered) : printed.filtered[i].owner = <<"0", "x", "A">>

\* C3 as claimed: with the empty allow-list the filtered sequence is the
\* input sequence.
C3_EmptyListNoFiltering ==
  (Done /\ script = "filtered" /\ FILTER_USERS = <<>>) => printed.filtered = snapshots

\* C4 as claimed: every input snapshot whose owner equals an allow-list entry
\* when letter case is ignored on both sides is kept by the filter.
C4_MatchIgnoresCaseOnBothSides ==
  (Done /\ script = "filtered") =>
    \A i \in 1..Len(snapshots) :
      (\E k \in 1..Len(FILTER_USERS) : EqualIgnoringCase(snapshots[i].owner, FILTER_USERS[k]))
        => \E j \in 1..Len(printed.filtered) : printed.filtered[j].id = snapshots[i].id

\* ---- position totals
\* The amount of a field in hundredths, 0 when absent (every amount of the
\* model has at most two fractional digits).
Hundredths(x) == Scaled(Amt(x), 2)

RECURSIVE SumOver(_, _, _)
\* The sum of a field over the snapshots of `snaps` with the ids in `ids`.
SumOver(snaps, ids, f) ==
  IF ids = {} THEN 0
  ELSE LET i == CHOOSE i \in ids : TRUE
       IN  Hundredths(snaps[i][f]) + SumOver(snaps, ids \ {i}, f)

\* The positions of the displayed sequence that belong to a position id.
IndicesOf(positionId) ==
  {i \in 1..Len(Displayed) : HasPositionId(Displayed[i]) /\ Displayed[i].position = positionId}

Blocks == printed.transactions.positions

\* C5: the totals printed for a position are the sums, field by field, of the
\* amounts of the snapshots of that position, an absent amount counting as 0;
\* the two documented snapshots (deposited 2 and 1, withdrawn 0.5 and 0)
\* total to deposited 3 and withdrawn 0.5.  (Fields 1 and 3 of AmountFields
\* are depositedToken0 and withdrawnToken0.)
C5_TotalsAreSums ==
  (Done /\ printed.calledTransactions) =>
    \A b \in 1..Len(Blocks) :
      /\ \A f \in 1..Len(AmountFields) :
           Blocks[b].totals[f]
             = FromScaled(SumOver(Displayed, IndicesOf(Blocks[b].positionId), AmountFields[f]), 2)
      /\ ( /\ Blocks[b].activity = 2
           /\ \A i \in IndicesOf(Blocks[b].positionId) :
                \/ /\ Displayed[i].depositedToken0 = <<"2">>
                   /\ Displayed[i].withdrawnToken0 = <<"0", ".", "5">>
                \/ /\ Displayed[i].depositedToken0 = <<"1">>
                   /\ Displayed[i].withdrawnToken0 = <<"0">>
           /\ \E i, j \in IndicesOf(Blocks[b].positionId) :
                Displayed[i].depositedToken0 # Displayed[j].depositedToken0 )
         => /\ Blocks[b].totals[1] = Dec(FALSE, 3, 0)
            /\ Blocks[b].totals[3] = Dec(FALSE, 5, 1)

\* The documented example: one position with the deposits 2 and 1 and the
\* withdrawals 0.5 and 0, totalled to 3 and 0.5.
C5_Witness ==
  /\ Done /\ printed.calledTransactions
  /\ \E b \in 1..Len(Blocks) :
       /\ Blocks[b].activity = 2
       /\ Displayed[Blocks[b].snapshots[1]].depositedToken0 = <<"2">>
       /\ Displayed[Blocks[b].snapshots[1]].withdrawnToken0 = <<"0", ".", "5">>
       /\ Displayed[Blocks[b].snapshots[2]].depositedToken0 = <<"1">>
       /\ Displayed[Blocks[b].snapshots[2]].withdrawnToken0 = <<"0">>
       /\ Blocks[b].totals[1] = Dec(FALSE, 3, 0)
       /\ Blocks[b].totals[3] = Dec(FALSE, 5, 1)

\* C6: for each position block and each token, net position plus total
\* withdrawn is total deposited, i.e. net = deposited - withdrawn, also when
\* the withdrawals exceed the deposits.
C6_NetIsDepositedMinusWithdrawn ==
  (Done /\ printed.calledTransactions) =>
    \A b \in 1..Len(Blocks) :
      /\ NumAdd(Blocks[b].netToken0, Blocks[b].totals[3]) = Blocks[b].totals[1]
      /\ NumAdd(Blocks[b].netToken1, Blocks[b].totals[4]) = Blocks[b].totals[2]
      /\ Scaled(Blocks[b].netToken0, 2)
           = Scaled(Blocks[b].totals[1], 2) - Scaled(Blocks[b].totals[3], 2)
      /\ Scaled(Blocks[b].netToken1, 2)
           = Scaled(Blocks[b].totals[2], 2) - Scaled(Blocks[b].totals[4], 2)

\* A position whose withdrawals of token0 exceed its deposits: a negative net.
C6_Witness ==
  /\ Done /\ printed.calledTransactions
  /\ \E b \in 1..Len(Blocks) :
       /\ Blocks[b].netToken0.neg /\ Blocks[b].netToken0.mant > 0
       /\ NumGtZero(Blocks[b].totals[1])

\* ---- formatTokenAmount
\* C7: formatTokenAmount returns "0" exactly when its argument is falsy or
\* parses to a number that is zero.
C7_ZeroIffFalsyOrZero ==
  Done =>
    ((formatted = <<"0">>) <=> (Falsy(amountArg) \/ NumIsZero(parseFloat(amountArg))))

\* A zero written with a fraction: not the literal '0', still rendered "0".
C7_Witness ==
  /\ Done
  /\ amountArg = <<"0", ".", "0">>
  /\ formatted = <<"0">>

\* The number of characters after the decimal point, 0 without a point.
FractionLength(str) ==
  IF \E i \in 1..Len(str) : str[i] = "."
  THEN Len(str) - (CHOOSE i \in 1..Len(str) : str[i] = ".")
  ELSE 0

\* C8 as claimed: an amount of magnitude >= 1 is rendered with exactly 6
\* fractional digits and one of magnitude strictly between 0 and 1 with
\* exactly 12, negative amounts included.
C8_PrecisionByMagnitude ==
  (Done /\ ~Falsy(amountArg)) =>
    LET numAmount == parseFloat(amountArg)
    IN  /\ MagnitudeGeOne(numAmount) => FractionLength(formatted) = LargePrecision
        /\ MagnitudeBelowOne(numAmount) => FractionLength(formatted) = SmallPrecision

\* ---- the fetches
\* The failure cases of one call: the transport failed (the request or the
\* reading of its body), the response carries errors, the field is missing.
TransportFailed(f) == tasks[f].transport = "failed" \/ tasks[f].parsed = "failed"

ErrorsPayload(f) == tasks[f].parsed = "ok" /\ tasks[f].body.errors

EntityAbsent(f) == tasks[f].parsed = "ok" /\ ~tasks[f].body.present

FailureCase(f) == TransportFailed(f) \/ ErrorsPayload(f) \/ EntityAbsent(f)

\* The calls whose failure is a failure of f: its own and, for the token
\* scripts' snapshot fetch, the pool discovery it awaits first.
CallsOf(f) ==
  IF f = "fetchKHypePositionSnapshots" THEN TokenFetches ELSE {f}

\* C9: a fetch function throws to its caller in each failure case (transport
\* error, errors payload, required entity absent, e.g. the pool of
\* fetchPoolInfo), and when it returns, none of the cases holds and the
\* result is the decoded field of the response (for the pool discovery:
\* pools of the decoded list).
C9_FetchFailsInEachCase ==
  \A f \in Fetches :
    /\ (\E g \in CallsOf(f) : FailureCase(g)) => tasks[f].pc = "rejected"
    /\ tasks[f].pc = "fulfilled" =>
         /\ \A g \in CallsOf(f) : ~FailureCase(g)
         /\ tasks[f].parsed = "ok" /\ tasks[f].body.present
         /\ IF f = "fetchKHypePools"
            THEN \A i \in 1..Len(tasks[f].value) :
                   \E j \in 1..Len(tasks[f].body.entity) :
                     tasks[f].value[i] = tasks[f].body.entity[j]
            ELSE tasks[f].value = tasks[f].body.entity

\* The three calls of the pool script failed, one in each case, the pool
\* fetch on a response without the pool.
C9_Witness ==
  /\ script = "pool"
  /\ EntityAbsent("fetchPoolInfo") /\ ~ErrorsPayload("fetchPoolInfo")
  /\ tasks["fetchPoolInfo"].pc = "rejected"
  /\ ErrorsPayload("fetchCurrentPositions")
  /\ tasks["fetchCurrentPositions"].pc = "rejected"
  /\ tasks["fetchPositionSnapshots"].transport = "failed"
  /\ tasks["fetchPositionSnapshots"].pc = "rejected"

Logged(line) == \E i \in 1..Len(console) : console[i] = line

FinalFailure == [level |-> "error", at |-> "main", text |-> "Failed to fetch"]

FinalFailures == {i \in 1..Len(console) : console[i] = FinalFailure}

PoolReportParts == IF Len(printed) >= 2 THEN Len(printed) ELSE 0

\* C11: in a run in which main's handler logs the final failure message, no
\* part of the report (pool information, current positions, snapshots) has
\* been printed, and nothing fetched is displayed or returned.
C11_NoPartialResultSalvage ==
  Logged(FinalFailure) =>
    /\ mainResult.returned = "undefined"
    /\ script = "pool" => PoolReportParts = 0
    /\ script # "pool" => snapshots = <<>>

\* ---- concurrency of the pool script
\* A call whose response, or whose body, has not arrived yet.
Outstanding(f) == tasks[f].pc \in {"awaitFetch", "awaitJson"}

\* C12: the pool script posts its three queries together, before any
\* response, and main goes on (to the displays or to its failure handler)
\* only when none of the three is outstanding any more.
C12_MainWaitsForAllThree ==
  script = "pool" =>
    /\ pc # "start" =>
          {requests[i].query : i \in 1..Len(requests)} = {QueryOf(f) : f \in PoolFetches}
    /\ Done => \A f \in PoolFetches : ~Outstanding(f)

\* ---- one attempt for each query
\* The requests sent so far by the call of f.
RequestsOf(f) ==
  {i \in 1..Len(requests) :
     /\ requests[i].query = QueryOf(f)
     /\ (f \in PoolFetches <=> script = "pool")}

\* C13: every query is attempted once in a run: a call sends its request
\* once, when it starts, and sends nothing more after it failed, so no
\* request is ever sent twice.
C13_SingleAttempt ==
  /\ \A f \in Fetches :
       /\ Cardinality(RequestsOf(f)) <= 1
       /\ tasks[f].pc \in {"awaitFetch", "awaitJson", "rejected", "fulfilled"}
            /\ FailureCase(f) => Cardinality(RequestsOf(f)) = 1
  /\ Len(requests) = Cardinality(UNION {RequestsOf(f) : f \in Fetches})

\* The three calls of the pool script all failed and main ended: three
\* requests were sent.
C13_Witness ==
  /\ Done /\ script = "pool"
  /\ \A f \in PoolFetches : tasks[f].pc = "rejected"
  /\ Len(requests) = 3

\* ---- the order of the position groups
\* Where a position id first appears in the displayed sequence.
FirstAppearance(positionId) ==
  CHOOSE i \in IndicesOf(positionId) : \A j \in IndicesOf(positionId) : i <= j

\* C14: the position blocks are printed by descending snapshot count, and
\* of two positions with the same count the one whose id appears first in
\* the displayed sequence is printed first, whatever the ids look like.
C14_MostActiveFirstTiesInGroupingOrder ==
  (Done /\ printed.calledTransactions) =>
    \A a, b \in 1..Len(Blocks) :
      a < b =>
        /\ Blocks[a].activity >= Blocks[b].activity
        /\ Blocks[a].activity = Blocks[b].activity =>
             FirstAppearance(Blocks[a].positionId) < FirstAppearance(Blocks[b].positionId)

\* ---- the order inside the groups
\* The snapshots with the ids `ids` (a snapshot's id is its place in the
\* input sequence) stand in input order, and so by descending timestamp.
InInputOrder(ids) ==
  \A i, j \in 1..Len(ids) :
    i < j => /\ ids[i] < ids[j]
             /\ snapshots[ids[i]].timestamp > snapshots[ids[j]].timestamp

\* C15: the snapshots printed under a pool and an owner, and the snapshots
\* of a position group, keep the relative order of the input sequence, which
\* is by descending timestamp.
C15_GroupsKeepInputOrder ==
  (Done /\ ~printed.empty) =>
    LET pools == printed.listing.pools
    IN  /\ \A p \in 1..Len(pools) : \A u \in 1..Len(pools[p].users) :
             InInputOrder([l \in 1..Len(pools[p].users[u].lines) |->
                             pools[p].users[u].lines[l].id])
        /\ printed.calledTransactions =>
             \A b \in 1..Len(Blocks) : InInputOrder(Blocks[b].snapshots)

\* An owner whose first and third snapshot are in one pool and whose second
\* is in another: a group of snapshots that were not neighbours in the input.
C15_Witness ==
  /\ Done /\ ~printed.empty /\ printed.calledTransactions
  /\ Len(printed.listing.pools) = 2
  /\ \E p \in 1..Len(printed.listing.pools) :
       \E u \in 1..Len(printed.listing.pools[p].users) :
         /\ Len(printed.listing.pools[p].users[u].lines) = 2
         /\ printed.listing.pools[p].users[u].lines[1].id = 1
         /\ printed.listing.pools[p].users[u].lines[2].id = 3
  /\ \E b \in 1..Len(Blocks) : Len(Blocks[b].snapshots) = 3

\* ---- current and peak liquidity
\* The liquidity of the input snapshot with the id `id`, in hundredths, an
\* absent one counting as 0.
LiquidityOf(id) == Hundredths(snapshots[id].liquidity)

\* C16: the current liquidity printed for a position is the liquidity of the
\* first snapshot of its group, the peak liquidity is the largest liquidity
\* of the group's snapshots, and the peak is never below the current one.
C16_CurrentIsFirstPeakIsMax ==
  (Done /\ printed.calledTransactions) =>
    \A b \in 1..Len(Blocks) :
      LET ids == Blocks[b].snapshots
      IN  /\ Scaled(Blocks[b].currentLiquidity, 2) = LiquidityOf(ids[1])
          /\ \A i \in 1..Len(ids) : Scaled(Blocks[b].maxLiquidity, 2) >= LiquidityOf(ids[i])
          /\ \E i \in 1..Len(ids) : Scaled(Blocks[b].maxLiquidity, 2) = LiquidityOf(ids[i])
          /\ Scaled(Blocks[b].maxLiquidity, 2) >= Scaled(Blocks[b].currentLiquidity, 2)
          /\ ~Blocks[b].currentLiquidity.nan /\ ~Blocks[b].maxLiquidity.nan

\* A position of three snapshots whose most recent liquidity, 10, is below
\* its peak, 30, reached by the second of them.
C16_Witness ==
  /\ Done /\ printed.calledTransactions
  /\ \E b \in 1..Len(Blocks) :
       /\ Blocks[b].activity = 3
       /\ snapshots[Blocks[b].snapshots[1]].liquidity = <<"1", "0">>
       /\ snapshots[Blocks[b].snapshots[2]].liquidity = <<"3", "0">>
       /\ Blocks[b].currentLiquidity = Dec(FALSE, 10, 0)
       /\ Blocks[b].maxLiquidity = Dec(FALSE, 30, 0)

\* ---- significant events
\* The input snapshot with the id `id` has a non-zero amount among its six.
HasNonZeroAmount(id) ==
  \E f \in 1..Len(AmountFields) : Hundredths(snapshots[id][AmountFields[f]]) # 0

\* The ids of `ids` whose snapshots have a non-zero amount, in order.
NonZeroAmong(ids) == SelectSeq(ids, HasNonZeroAmount)

\* C17: the significant events of a position are exactly its snapshots with
\* a non-zero amount (deposited, withdrawn or fees, of either token): their
\* number is the printed count, the timeline lists them and only them, and a
\* snapshot whose six amounts are zero or absent is not in the timeline.
C17_SignificantIffSomeAmountNonZero ==
  (Done /\ printed.calledTransactions) =>
    \A b \in 1..Len(Blocks) :
      LET events == NonZeroAmong(Blocks[b].snapshots)
      IN  /\ Blocks[b].significant = Len(events)
          /\ Len(Blocks[b].timeline) + Blocks[b].moreEvents = Len(events)
          /\ \A e \in 1..Len(Blocks[b].timeline) : Blocks[b].timeline[e].id = events[e]

\* A position with a snapshot without amounts between two with amounts: two
\* significant events out of three snapshots.
C17_Witness ==
  /\ Done /\ printed.calledTransactions
  /\ \E b \in 1..Len(Blocks) :
       /\ Blocks[b].activity = 3
       /\ Blocks[b].significant = 2
       /\ ~HasNonZeroAmount(Blocks[b].snapshots[2])
       /\ Blocks[b].timeline[2].id = Blocks[b].snapshots[3]
       /\ Blocks[b].timeline[2].withdrawn /\ ~Blocks[b].timeline[2].deposited

\* ---- truncated output
\* The ids of the input snapshots of a position, in input order.
GroupIds(positionId) ==
  LET inGroup(i) == HasPositionId(snapshots[i]) /\ snapshots[i].position = positionId
  IN  SelectSeq([i \in 1..Len(snapshots) |-> i], inGroup)

Min(a, b) == IF a <= b THEN a ELSE b

\* The entries printed are the first min(n, k) of `group`, and the
\* remainder note (a remainder of 0 stands for no note) reports n - k when
\* n > k and is missing otherwise.
TruncatedTo(k, group, entries, remainder) ==
  LET n == Len(group)
  IN  /\ Len(entries) = Min(n, k)
      /\ \A e \in 1..Len(entries) : entries[e].id = group[e] /\ entries[e].index = e
      /\ remainder = (IF n > k THEN n - k ELSE 0)

\* C18: the activity timeline of a position prints the first 5 of its
\* significant events and the pool script prints the first 3 snapshots of a
\* position; of n entries min(n, K) are printed, the first ones in group
\* order, with a note of the n - K remaining ones exactly when n > K.
C18_TruncatedWithRemainderNote ==
  Done =>
    IF script = "pool"
    THEN \A b \in 1..Len(printed.positions) :
           TruncatedTo(3, GroupIds(printed.positions[b].positionId),
                       printed.positions[b].recent, printed.positions[b].more)
    ELSE printed.calledTransactions =>
           \A b \in 1..Len(Blocks) :
             TruncatedTo(5, NonZeroAmong(Blocks[b].snapshots),
                         Blocks[b].timeline, Blocks[b].moreEvents)

\* A position with six significant events: five in the timeline, one in the
\* remainder note.
C18_Witness ==
  /\ Done /\ script = "filtered" /\ printed.calledTransactions
  /\ \E b \in 1..Len(Blocks) :
       /\ Blocks[b].significant = 6
       /\ Len(Blocks[b].timeline) = 5
       /\ Blocks[b].moreEvents = 1

\* ---- pool discovery
\* Where a pool stands in the list the subgraph returned.
PlaceIn(fetched, pool) == CHOOSE j \in 1..Len(fetched) : fetched[j] = pool

\* C19: the pools fetchKHypePools returns are exactly the pools of the
\* fetched list whose token0 or token1 id is the K-HYPE token id, letter
\* case ignored, in the order of the fetched list.
C19_DiscoveryKeepsExactlyKHypePools ==
  tasks["fetchKHypePools"].pc = "fulfilled" =>
    LET fetched == tasks["fetchKHypePools"].body.entity
        result  == tasks["fetchKHypePools"].value
    IN  /\ \A j \in 1..Len(fetched) :
             (\E i \in 1..Len(result) : result[i] = fetched[j])
               <=> \/ EqualIgnoringCase(fetched[j].token0, KHYPE_TOKEN_ID)
                   \/ EqualIgnoringCase(fetched[j].token1, KHYPE_TOKEN_ID)
        /\ \A i \in 1..Len(result) : \E j \in 1..Len(fetched) : result[i] = fetched[j]
        /\ \A i, k \in 1..Len(result) :
             i < k => PlaceIn(fetched, result[i]) < PlaceIn(fetched, result[k])

\* Of three pools fetched, the first (K-HYPE as token0) and the third (K-HYPE
\* as token1, its id in upper case) are returned, the second is not.
C19_Witness ==
  /\ tasks["fetchKHypePools"].pc = "fulfilled"
  /\ Len(tasks["fetchKHypePools"].body.entity) = 3
  /\ Len(tasks["fetchKHypePools"].value) = 2
  /\ tasks["fetchKHypePools"].value[1] = tasks["fetchKHypePools"].body.entity[1]
  /\ tasks["fetchKHypePools"].value[2] = tasks["fetchKHypePools"].body.entity[3]
  /\ tasks["fetchKHypePools"].value[2].token1 # KHYPE_TOKEN_ID

\* ---- the two queries of the token scripts
\* The requests for position snapshots sent so far.
SnapshotRequests == RequestsOf("fetchKHypePositionSnapshots")

\* C20: in the token scripts the snapshots query is sent only after the
\* pool discovery returned, right after it and after its request, with the
\* ids of the discovered pools, in their order, as its pool ids; when the
\* discovery fails the snapshots query is never sent and the discovery's
\* error is the error main receives.
C20_SnapshotsQueryFollowsDiscovery ==
  script \in {"all", "filtered"} =>
    LET discovery == tasks["fetchKHypePools"]
        outer     == tasks["fetchKHypePositionSnapshots"]
    IN  /\ SnapshotRequests # {} <=> discovery.pc = "fulfilled"
        /\ \A i \in SnapshotRequests :
             /\ i = 2 /\ requests[1].query = QueryOf("fetchKHypePools")
             /\ requests[i].variables
                  = [k \in 1..Len(discovery.value) |-> discovery.value[k].id]
        /\ discovery.pc # "fulfilled" => outer.transport = "none" /\ outer.parsed = "none"
        /\ discovery.pc = "rejected" =>
             /\ SnapshotRequests = {} /\ Len(requests) = 1
             /\ outer.pc = "rejected" /\ outer.error = discovery.error
             /\ awaited.state = "rejected" /\ awaited.error = discovery.error

\* The discovery returned two of three pools and the snapshots query was
\* sent with their two ids.
C20_Witness ==
  /\ script \in {"all", "filtered"}
  /\ Len(tasks["fetchKHypePools"].body.entity) = 3
  /\ Len(requests) = 2
  /\ requests[2].query = "POSITION_SNAPSHOTS_QUERY"
  /\ requests[2].variables = << <<"0", "x", "c">>, <<"0", "x", "d">> >>

\* ---- failures of the three concurrent queries
\* How often the catch block of f logged its error line.
CallSiteErrors(f) == Cardinality({i \in 1..Len(console) : console[i] = ErrorLine(f)})

\* C21: in the pool script, whatever queries fail and in whatever order the
\* responses arrive, main's final failure message is logged once when a
\* query has failed and never when all three succeeded, and each failed
\* query has logged its own error line once, also when it failed after
\* another one had already made main end.
C21_FinalFailureOnceIffSomeQueryFails ==
  script = "pool" =>
    /\ Cardinality(FinalFailures) <= 1
    /\ Done => (FinalFailures # {} <=> \E f \in PoolFetches : tasks[f].pc = "rejected")
    /\ (\A f \in PoolFetches : tasks[f].pc = "fulfilled") => FinalFailures = {}
    /\ \A f \in PoolFetches :
         CallSiteErrors(f) = (IF tasks[f].pc = "rejected" THEN 1 ELSE 0)

\* ---- snapshots without a position id
\* The input snapshots that carry a position id (a non-empty string), and
\* the ids they carry.
WithPositionId ==
  {i \in 1..Len(snapshots) : snapshots[i].position # Absent /\ snapshots[i].position # <<>>}

PositionIdsPresent == {snapshots[i].position : i \in WithPositionId}

\* C22: a snapshot without a position id is in no position group: the group
\* sizes sum to the number of snapshots with an id, the snapshots of a group
\* carry the group's id, and the number of unique positions reported is the
\* number of distinct ids present; when no snapshot has an id, the position
\* view of the allow-list script reports that no positions were found and
\* prints no block, total or average (the average divides by the number of
\* groups, which is positive whenever it is computed).
C22_NoPositionIdNoGroup ==
  (Done /\ snapshots # <<>>) =>
    IF script = "pool"
    THEN /\ SumSeq([b \in 1..Len(printed.positions) |-> printed.positions[b].count])
              = Cardinality(WithPositionId)
         /\ \A b \in 1..Len(printed.positions) :
              /\ printed.positions[b].positionId \in PositionIdsPresent
              /\ \A l \in 1..Len(printed.positions[b].recent) :
                   /\ printed.positions[b].recent[l].id \in WithPositionId
                   /\ snapshots[printed.positions[b].recent[l].id].position
                        = printed.positions[b].positionId
         /\ printed.uniquePositions = Cardinality(PositionIdsPresent)
         /\ Len(printed.positions) = Cardinality(PositionIdsPresent)
    ELSE /\ printed.calledTransactions
         /\ printed.transactions.found <=> WithPositionId # {}
         /\ SumSeq([b \in 1..Len(Blocks) |-> Blocks[b].activity]) = Cardinality(WithPositionId)
         /\ \A b \in 1..Len(Blocks) :
              /\ Blocks[b].activity = Len(Blocks[b].snapshots)
              /\ Blocks[b].positionId \in PositionIdsPresent
              /\ \A k \in 1..Len(Blocks[b].snapshots) :
                   /\ Blocks[b].snapshots[k] \in WithPositionId
                   /\ snapshots[Blocks[b].snapshots[k]].position = Blocks[b].positionId
         /\ Len(Blocks) = Cardinality(PositionIdsPresent)
         /\ printed.listing.summary.totalPositions = Cardinality(PositionIdsPresent)
         /\ printed.transactions.found =>
              /\ printed.transactions.summary.uniquePositions = Cardinality(PositionIdsPresent)
              /\ printed.transactions.summary.averageOf = Cardinality(WithPositionId)
              /\ printed.transactions.summary.averageOver = Cardinality(PositionIdsPresent)
              /\ printed.transactions.summary.averageOver > 0

\* Three snapshots, one of them without a position id, the other two in two
\* positions: two groups of one snapshot.
C22_Witness ==
  /\ Done /\ script = "filtered" /\ Len(snapshots) = 3
  /\ Cardinality(WithPositionId) = 2
  /\ snapshots[2].position = Absent
  /\ printed.transactions.found
  /\ Len(Blocks) = 2
  /\ printed.transactions.summary.uniquePositions = 2

====
